---- MODULE Spec2Model ----
(***************************************************************************)
(* Model of ctree/analysis_tree_helpers.py: the HTree edge table and the   *)
(* algorithms over it (get_descendants, get_ancestors, get_mergeseq,       *)
(* do_merges, get_subtree, simplify_tree, calculate_cophenetic_distance,   *)
(* update_layout, calculate_wasserstein_distance).                         *)
(*                                                                         *)
(* An HTree is a table with one row per node; numpy's boolean-mask         *)
(* selection  self.child[self.parent == n]  is SelectSeq over the rows,    *)
(* in row order.  Heights y are integers here; the one place where the     *)
(* code adds 0.1 (get_mergeseq) is modelled in tenths.  The col column is  *)
(* carried by no algorithm and is left out of the rows.                    *)
(***************************************************************************)
EXTENDS Integers, Sequences, FiniteSets, TLC

VARIABLES
    tree,           \* the HTree the program holds: a sequence of rows
    call,           \* the last call that returned: its name, arguments, result
    pc,             \* "idle", or "bfs" while get_descendants is in its loop
    node,           \* get_descendants: its argument
    leafonly,       \* get_descendants: its argument
    current_node,   \* get_descendants: the work list
    descendants     \* get_descendants: the names emitted so far

vars == <<tree, call, pc, node, leafonly, current_node, descendants>>

-----------------------------------------------------------------------------
(* Bounds of the model *)

MaxNodes == 5       \* rows of a tree
MaxMergeNodes == 4  \* rows of a tree whose merge sequence is applied to label arrays
MaxLabels == 2      \* length of a label array that is not the leaf list
MaxY == 2           \* heights are 0..MaxY
MaxEmit == 8        \* get_descendants is followed until it has emitted this many names
MaxRowsM == 3       \* rows of a malformed edge list
MaxN == 2           \* labels of a distribution handed to the transport solver
Mass == 2           \* a probability is a multiple of 1/Mass: P and Q sum to Mass
MaxCost == 1        \* an entry of the cost matrix is 0 or MaxCost
MaxLayoutNodes == 5 \* rows of a tree whose layout is updated
MaxX == 2           \* the x of a leaf before update_layout is 0..MaxX

\* Node names, in the order the rows of a generated tree use them.
NamePool == <<"a1", "a2", "B", "A", "R", "S", "T">>

\* The value the loader puts in the parent column of a row without a parent.
root == "root"

\* Python's None, as the default of get_ancestors' rootnode.
None == "<None>"

-----------------------------------------------------------------------------
(* Sequence helpers standing for list and numpy primitives *)

Range(s) == {s[i] : i \in DOMAIN s}

RECURSIVE SumSeq(_)
SumSeq(s) == IF s = <<>> THEN 0 ELSE Head(s) + SumSeq(Tail(s))

Reverse(s) == [i \in 1..Len(s) |-> s[Len(s) + 1 - i]]

SetMax(S) == CHOOSE m \in S : \A k \in S : k <= m

SetMin(S) == CHOOSE m \in S : \A k \in S : m <= k

NoDuplicates(s) == \A i, j \in DOMAIN s : s[i] = s[j] => i = j

-----------------------------------------------------------------------------
(* HTree: the columns of the table *)

\* self.child, self.parent as arrays
childCol(t) == [i \in DOMAIN t |-> t[i].child]

parentCol(t) == [i \in DOMAIN t |-> t[i].parent]

\* self.child[self.parent == n].tolist()
ChildrenOf(t, n) == childCol(SelectSeq(t, LAMBDA r : r.parent = n))

\* self.parent[self.child == n]
ParentsOf(t, n) == parentCol(SelectSeq(t, LAMBDA r : r.child = n))

\* self.child[self.isleaf]
LeafList(t) == childCol(SelectSeq(t, LAMBDA r : r.isleaf))

\* self.y[self.child == n]
YOf(t, n) == LET rows == SelectSeq(t, LAMBDA r : r.child = n)
             IN  [i \in DOMAIN rows |-> rows[i].y]

\* np.unique(np.concatenate([self.child, self.parent])), as a set
NodeNames(t) == Range(childCol(t)) \cup Range(parentCol(t))

-----------------------------------------------------------------------------
(* The trees the program is started on *)

\* Parent positions of an n-row tree: row i hangs under row p[i] > i, or under
\* the root sentinel (position n+1); rows are numbered so that p is monotone,
\* which every rooted forest admits (number the nodes in reverse breadth-first
\* order).
Shapes(n) ==
    {p \in [1..n -> 2..(n + 1)] :
        \A i \in 1..n : p[i] > i /\ (i < n => p[i] <= p[i + 1])}

HasChild(n, p, i) == \E j \in 1..n : p[j] = i

\* Heights: 0 on the leaves, anything in 1..MaxY on the internal nodes (the
\* table does not relate the height of a parent to the heights of its children).
Heights(n, p) ==
    LET internal == {i \in 1..n : HasChild(n, p, i)}
    IN  {[i \in 1..n |-> IF i \in internal THEN h[i] ELSE 0] : h \in [internal -> 1..MaxY]}

MkTree(n, p, ys) ==
    [i \in 1..n |->
        [child  |-> NamePool[i],
         parent |-> IF p[i] = n + 1 THEN root ELSE NamePool[p[i]],
         isleaf |-> ~HasChild(n, p, i),
         x      |-> 2 * i,
         y      |-> ys[i]]]

TreesOfShape(n, p) == {MkTree(n, p, ys) : ys \in Heights(n, p)}

TreesOfSize(n) == UNION {TreesOfShape(n, p) : p \in Shapes(n)}

ValidTrees(max) == UNION {TreesOfSize(n) : n \in 1..max}

\* The tree of the worked example: R (y=2) over A (y=1) and the leaf B; A over
\* the leaves a1 and a2; R itself hangs under the root sentinel.
ScenarioTree ==
    <<[child |-> "a1", parent |-> "A",  isleaf |-> TRUE,  x |-> 2,  y |-> 0],
      [child |-> "a2", parent |-> "A",  isleaf |-> TRUE,  x |-> 4,  y |-> 0],
      [child |-> "B",  parent |-> "R",  isleaf |-> TRUE,  x |-> 6,  y |-> 0],
      [child |-> "A",  parent |-> "R",  isleaf |-> FALSE, x |-> 8,  y |-> 1],
      [child |-> "R",  parent |-> root, isleaf |-> FALSE, x |-> 10, y |-> 2]>>

\* Edge lists HTree.__init__ accepts without complaint although they are no
\* trees: any rows over a few names, so with cycles, self loops, several rows
\* for one child, parents that have no row.
MalformedRow(c, p, edges) ==
    [child |-> c, parent |-> p, isleaf |-> \A e \in edges : e[2] # c, x |-> 0, y |-> 0]

MalformedTrees(max) ==
    LET names == {NamePool[i] : i \in 1..max}
    IN  UNION {{[i \in 1..n |-> MalformedRow(e[i][1], e[i][2], Range(e))] :
                  e \in [1..n -> names \X (names \cup {root})]} :
               n \in 1..max}

-----------------------------------------------------------------------------
(* HTree.get_descendants: the breadth-first loop, one iteration at a time *)

\* One iteration of  while current_node:  on the work list and the output.
bfs_step(t, cur, desc) ==
    LET parent    == Head(cur)                       \* current_node.pop(0)
        next_node == ChildrenOf(t, parent)
    IN  [current_node |-> Tail(cur) \o next_node,
         descendants  |-> desc \o next_node]

\* list(set(descendants) & set(self.child[self.isleaf])): the order of the
\* list is the iteration order of a set and is not kept.
leaf_filter(t, desc) == Range(desc) \cap Range(LeafList(t))

\* The whole call on a table on which the loop ends (leafonly=False).
RECURSIVE bfs_run(_, _, _)
bfs_run(t, cur, desc) ==
    IF cur = <<>> THEN desc
    ELSE LET s == bfs_step(t, cur, desc)
         IN  bfs_run(t, s.current_node, s.descendants)

get_descendants(t, n) == bfs_run(t, ChildrenOf(t, n), ChildrenOf(t, n))

-----------------------------------------------------------------------------
(* HTree.get_ancestors *)

\* The loop with the comparison made before the array is appended, so that
\* rootnode is left out of the list.
RECURSIVE ancestors_loop_exclusive(_, _, _, _)
ancestors_loop_exclusive(t, cur, ancestors, rootnode) ==
    LET found == ParentsOf(t, cur)
    IN  IF Len(found) = 0 THEN [status |-> "ok", list |-> ancestors]
        ELSE IF Len(found) > 1 THEN [status |-> "ValueError", list |-> ancestors \o found]
        ELSE IF found[1] = rootnode THEN [status |-> "ok", list |-> ancestors]
        ELSE ancestors_loop_exclusive(t, found[1], ancestors \o found, rootnode)

\* The while loop from a current_node that holds the name cur (the argument,
\* or the one-element array of the previous pass).  The array read in a pass
\* is appended before it is compared with rootnode.  An empty array makes
\* current_node None and ends the loop whatever rootnode is; an array of
\* several parents has no truth value (ValueError).
RECURSIVE ancestors_loop(_, _, _, _)
ancestors_loop(t, cur, ancestors, rootnode) ==
    LET found    == ParentsOf(t, cur)          \* self.parent[self.child == current_node]
        extended == ancestors \o found
    IN  IF Len(found) = 0 THEN [status |-> "ok", list |-> extended]
        ELSE IF Len(found) > 1 THEN [status |-> "ValueError", list |-> extended]
        ELSE IF found[1] = rootnode THEN [status |-> "ok", list |-> extended]
        ELSE ancestors_loop(t, found[1], extended, rootnode)

\* The loop left after its first pass: the parent alone.
get_ancestors_one_pass(t, n, rootnode) ==
    [status |-> IF Len(ParentsOf(t, n)) > 1 THEN "ValueError" ELSE "ok",
     list   |-> ParentsOf(t, n)]

get_ancestors(t, n, rootnode) == ancestors_loop(t, n, <<>>, rootnode)

-----------------------------------------------------------------------------
(* HTree.get_mergeseq *)

\* np.setdiff1d(self.parent, self.child[self.isleaf]): the parent labels that
\* are no leaf.  Its (sorted) order is read by argsort alone.
merge_candidates(t) == Range(parentCol(t)) \ Range(LeafList(t))

\* The height of a label without a row taken to be np.max(self.y), with
\* nothing added.
merge_height_no_margin(t, label) ==
    IF label \in Range(childCol(t))
    THEN 10 * YOf(t, label)[1]
    ELSE 10 * SetMax({t[i].y : i \in DOMAIN t})

\* The entry of the list y for a label, in tenths: the label's own y when it
\* has a row, np.max(self.y) + 0.1 otherwise.
merge_height(t, label) ==
    IF label \in Range(childCol(t))
    THEN 10 * YOf(t, label)[1]
    ELSE 10 * SetMax({t[i].y : i \in DOMAIN t}) + 1

\* ordered_merge_parents[np.argsort(y)].tolist(): the labels in ascending
\* order of height.  np.argsort's default kind is not a stable sort, so labels
\* of equal height come out in any order.
RECURSIVE argsort_orders(_, _)
argsort_orders(t, labels) ==
    IF labels = {} THEN {<<>>}
    ELSE LET lowest == SetMin({merge_height(t, l) : l \in labels})
             first  == {l \in labels : merge_height(t, l) = lowest}
         IN  UNION {{<<l>> \o rest : rest \in argsort_orders(t, labels \ {l})} : l \in first}

\* The while loop run until the list is empty.
get_mergeseq_until_empty(t, ordered_merge_parents) ==
    [i \in 1..Len(ordered_merge_parents) |->
        [children |-> ChildrenOf(t, ordered_merge_parents[i]),
         parent   |-> ordered_merge_parents[i]]]

\* The while loop: pop the front label and record its children, until one
\* label is left.
get_mergeseq(t, ordered_merge_parents) ==
    [i \in 1..(Len(ordered_merge_parents) - 1) |->
        [children |-> ChildrenOf(t, ordered_merge_parents[i]),
         parent   |-> ordered_merge_parents[i]]]

-----------------------------------------------------------------------------
(* do_merges *)

\* labels[labels == c_node] = p_node
relabel(labels, c_node, p_node) ==
    [i \in DOMAIN labels |-> IF labels[i] = c_node THEN p_node ELSE labels[i]]

\* Only the first child of the record relabelled.
merge_first_child(labels, c_nodes_list, p_node) ==
    IF c_nodes_list = <<>> THEN labels
    ELSE relabel(labels, Head(c_nodes_list), p_node)

\* for c_node in c_nodes_list
RECURSIVE merge_children(_, _, _)
merge_children(labels, c_nodes_list, p_node) ==
    IF c_nodes_list = <<>> THEN labels
    ELSE merge_children(relabel(labels, Head(c_nodes_list), p_node),
                        Tail(c_nodes_list), p_node)

\* for i in range(n_merges), from i on; the else branch prints that the
\* list is used up and breaks.
RECURSIVE merges_from(_, _, _, _)
merges_from(labels, list_changes, n_merges, i) ==
    IF i >= n_merges THEN [labels |-> labels, exhausted |-> FALSE]
    ELSE IF i < Len(list_changes)
         THEN merges_from(merge_children(labels, list_changes[i + 1].children,
                                         list_changes[i + 1].parent),
                          list_changes, n_merges, i + 1)
         ELSE [labels |-> labels, exhausted |-> TRUE]

do_merges(labels, list_changes, n_merges) == merges_from(labels, list_changes, n_merges, 0)

-----------------------------------------------------------------------------
(* HTree.get_subtree *)

\* With a node list of one entry the else branch prints "Node not found in
\* current tree" and leaves subtree_df unbound, so the return statement raises
\* UnboundLocalError.
get_subtree(t, n) ==
    LET subtree_node_list == get_descendants(t, n) \o <<n>>
    IN  IF Len(subtree_node_list) > 1
        THEN [status |-> "ok",
              tree   |-> SelectSeq(t, LAMBDA r : r.child \in Range(subtree_node_list))]
        ELSE [status |-> "UnboundLocalError"]

-----------------------------------------------------------------------------
(* simplify_tree *)

\* The default skip_nodes: the labels that value_counts() counts once in the
\* parent column.
default_skip_nodes(t) ==
    {n \in Range(parentCol(t)) : Cardinality({i \in DOMAIN t : t[i].parent = n}) = 1}

\* The orders in which value_counts() can list labels of equal count.
RECURSIVE orders_of(_)
orders_of(S) ==
    IF S = {} THEN {<<>>}
    ELSE UNION {{<<e>> \o rest : rest \in orders_of(S \ {e})} : e \in S}

\* The rows naming the node dropped without re-parenting the rows under it.
simplify_node_no_relink(t, n) ==
    IF Range(ParentsOf(t, n)) = {} THEN t
    ELSE SelectSeq(t, LAMBDA r : ~(r.child = n \/ r.parent = n))

\* The body of  for node in skip_nodes.  A node without a parent row (the root
\* sentinel) is passed over; otherwise the rows under the node are re-parented
\* to the node's parent and the rows naming the node are dropped.
simplify_node(t, n) ==
    LET node_parent == Range(ParentsOf(t, n))        \* np.unique(...)
    IN  IF node_parent = {} THEN t
        ELSE LET new_parent == CHOOSE q \in node_parent : TRUE
                 relinked   == [i \in DOMAIN t |->
                                   IF t[i].parent = n
                                   THEN [t[i] EXCEPT !.parent = new_parent]
                                   ELSE t[i]]
             IN  SelectSeq(relinked, LAMBDA r : ~(r.child = n \/ r.parent = n))

RECURSIVE simplify_tree(_, _)
simplify_tree(t, skip_nodes) ==
    IF skip_nodes = <<>> THEN t
    ELSE simplify_tree(simplify_node(t, Head(skip_nodes)), Tail(skip_nodes))

-----------------------------------------------------------------------------
(* calculate_cophenetic_distance *)

\* ancestors_i.reverse(), then pop() from the end until a popped node is in
\* ancestors_j: the scan runs from the leaf upwards.  None when the list runs
\* out with nothing found.
RECURSIVE common_ancestor(_, _)
common_ancestor(reversed_i, ancestors_j) ==
    IF reversed_i = <<>> THEN None
    ELSE LET this_node == reversed_i[Len(reversed_i)]
         IN  IF this_node \in Range(ancestors_j) THEN this_node
             ELSE common_ancestor(SubSeq(reversed_i, 1, Len(reversed_i) - 1), ancestors_j)

\* The node whose y is written to df_distance.loc[lj, li].
pair_ancestor(t, li, lj) ==
    common_ancestor(Reverse(<<li>> \o get_ancestors(t, li, None).list),
                    <<lj>> \o get_ancestors(t, lj, None).list)

\* subtree_df.loc[subtree_df["child"] == this_node, "y"].iloc[0] raises
\* IndexError when this_node has no row; an entry nothing is written to keeps
\* the 0 of np.zeros.
calculate_cophenetic_distance(t) ==
    LET leaf_list == LeafList(t)
        leaves    == Range(leaf_list)
        walks_ok  == \A l \in leaves : get_ancestors(t, l, None).status = "ok"
        no_row    == \E li, lj \in leaves :
                        /\ pair_ancestor(t, li, lj) # None
                        /\ YOf(t, pair_ancestor(t, li, lj)) = <<>>
    IN  IF ~walks_ok THEN [status |-> "ValueError"]
        ELSE IF no_row THEN [status |-> "IndexError"]
        ELSE [status      |-> "ok",
              df_distance |-> [pair \in leaves \X leaves |->
                                 LET this_node == pair_ancestor(t, pair[2], pair[1])
                                 IN  IF this_node = None THEN 0 ELSE YOf(t, this_node)[1]]]

-----------------------------------------------------------------------------
(* calculate_wasserstein_distance *)

\* M.flatten() of an n x n array: row-major.
flatten(n, M) == [k \in 1..(n * n) |-> M[((k - 1) \div n) + 1][((k - 1) % n) + 1]]

\* v.reshape((n, n)): row-major.
reshape(n, v) == [i \in 1..n |-> [j \in 1..n |-> v[(i - 1) * n + j]]]

\* np.zeros((n, n)) with row i set to 1
row_constraint(n, i) == [r \in 1..n |-> [c \in 1..n |-> IF r = i THEN 1 ELSE 0]]

\* Row j set to 1 where column j is meant.
col_constraint_as_row(n, j) == [r \in 1..n |-> [c \in 1..n |-> IF r = j THEN 1 ELSE 0]]

\* np.zeros((n, n)) with column j set to 1
col_constraint(n, j) == [r \in 1..n |-> [c \in 1..n |-> IF c = j THEN 1 ELSE 0]]

\* The 2n rows of A_eq and the entries of b_eq: the row sums first, then the
\* column sums.
build_A_eq(n) ==
    [k \in 1..(2 * n) |->
        IF k <= n THEN flatten(n, row_constraint(n, k))
                  ELSE flatten(n, col_constraint(n, k - n))]

build_b_eq(n, P, Q) == [k \in 1..(2 * n) |-> IF k <= n THEN P[k] ELSE Q[k - n]]

Dot(u, v) == SumSeq([k \in DOMAIN u |-> u[k] * v[k]])

\* scipy's linprog, in two parts.  The feasible points: the points of the
\* grid 0..Mass that satisfy A_eq x = b_eq with x >= 0 (found by extending a
\* prefix while no row of A_eq, whose entries are not negative, is over its
\* bound).
RECURSIVE feasible_from(_, _, _)
feasible_from(A_eq, b_eq, prefix) ==
    IF Len(prefix) = Len(A_eq[1])
    THEN IF \A r \in DOMAIN A_eq : Dot(prefix, A_eq[r]) = b_eq[r] THEN {prefix} ELSE {}
    ELSE UNION {feasible_from(A_eq, b_eq, Append(prefix, v)) :
                   v \in {w \in 0..Mass :
                            \A r \in DOMAIN A_eq :
                               Dot(Append(prefix, w), SubSeq(A_eq[r], 1, Len(prefix) + 1))
                                  <= b_eq[r]}}

feasible_points(A_eq, b_eq) == feasible_from(A_eq, b_eq, <<>>)

\* The result: the solver answers with any feasible point of least cost and
\* that cost, or reports that it has failed; it fails when there is no
\* feasible point.
linprog(cost_vector, feasible) ==
    LET costs   == {Dot(cost_vector, v) : v \in feasible}
        optimal == {v \in feasible : Dot(cost_vector, v) = SetMin(costs)}
    IN  {[success |-> TRUE, x |-> v, fun |-> Dot(cost_vector, v)] : v \in optimal}
           \cup {[success |-> FALSE]}

\* The return value for a result of the solver.
wasserstein_return(n, result) ==
    IF result.success
    THEN [transport_plan |-> reshape(n, result.x), distance |-> result.fun]
    ELSE [transport_plan |-> None, distance |-> None]

\* The inputs: distributions over n labels in multiples of 1/Mass, and cost
\* matrices with entries 0 or MaxCost.
Distributions(n) == {P \in [1..n -> 0..Mass] : SumSeq(P) = Mass}

CostMatrices(n) == [1..n -> [1..n -> {0, MaxCost}]]

-----------------------------------------------------------------------------
(* HTree.update_layout *)

\* The x column of a table update_layout works on holds floats.  A float that
\* is an integer or the mean of a few integers is the fraction num/den in
\* lowest terms; den = 0 is nan, the mean numpy gives of no values.
RECURSIVE GCD(_, _)
GCD(a, b) == IF b = 0 THEN a ELSE GCD(b, a % b)

Frac(n, d) ==
    IF d = 0 THEN [num |-> 0, den |-> 0]
    ELSE LET g == GCD(n, d)
         IN  IF g = 0 THEN [num |-> 0, den |-> 1]
             ELSE [num |-> n \div g, den |-> d \div g]

FracLess(f, g) == f.den # 0 /\ g.den # 0 /\ f.num * g.den < g.num * f.den

FracAdd(f, g) ==
    IF f.den = 0 \/ g.den = 0 THEN Frac(0, 0)
    ELSE Frac(f.num * g.den + g.num * f.den, f.den * g.den)

\* self.x[self.isleaf]
LeafX(t) == LET rows == SelectSeq(t, LAMBDA r : r.isleaf)
            IN  [i \in DOMAIN rows |-> rows[i].x]

\* np.argsort(all_child_x): the positions idx of xs in ascending order of
\* value.  The default kind is not a stable sort, so positions of equal value
\* come out in any order.
RECURSIVE argsort(_, _)
argsort(xs, idx) ==
    IF idx = {} THEN {<<>>}
    ELSE LET first == {i \in idx : \A j \in idx : ~FracLess(xs[j], xs[i])}
         IN  UNION {{<<i>> \o rest : rest \in argsort(xs, idx \ {i})} : i \in first}

\* The first loop: self.x[self.child == this_child] = new_x for the leaves in
\* sorted order, new_x counting up from its value at entry.
RECURSIVE assign_leaf_x(_, _, _)
assign_leaf_x(t, sorted_child, new_x) ==
    IF sorted_child = <<>> THEN t
    ELSE assign_leaf_x(
            [i \in DOMAIN t |->
                IF t[i].child = Head(sorted_child)
                THEN [t[i] EXCEPT !.x = Frac(new_x, 1)]
                ELSE t[i]],
            Tail(sorted_child), new_x + 1)

\* np.mean(self.x[descendant_leaf_ind]) over the rows whose child is one of
\* the names given.
RECURSIVE sum_x(_, _)
sum_x(t, rows) ==
    IF rows = {} THEN Frac(0, 1)
    ELSE LET i == CHOOSE k \in rows : TRUE
         IN  FracAdd(t[i].x, sum_x(t, rows \ {i}))

mean_x(t, names) ==
    LET descendant_leaf_ind == {i \in DOMAIN t : t[i].child \in names}
        total               == sum_x(t, descendant_leaf_ind)
    IN  IF descendant_leaf_ind = {} \/ total.den = 0 THEN Frac(0, 0)
        ELSE Frac(total.num, total.den * Cardinality(descendant_leaf_ind))

\* The mean taken over the children of the node, leaves or not.
parent_x_from_children(t, this_node) ==
    mean_x(t, Range(ChildrenOf(t, this_node)))

\* The body of the second loop: the value written to the rows of this_node,
\* the mean of x over get_descendants(node, leafonly=True).
parent_x(t, this_node) ==
    mean_x(t, leaf_filter(t, get_descendants(t, this_node)))

\* The second loop, over self.child[~self.isleaf].
RECURSIVE assign_parent_x(_, _)
assign_parent_x(t, parents) ==
    IF parents = <<>> THEN t
    ELSE assign_parent_x(
            [i \in DOMAIN t |->
                IF t[i].child = Head(parents)
                THEN [t[i] EXCEPT !.x = parent_x(t, Head(parents))]
                ELSE t[i]],
            Tail(parents))

\* update_layout with sortind the array np.argsort returned: the table the
\* object holds when the call returns.
update_layout(t, sortind) ==
    LET all_child == LeafList(t)
        parents   == childCol(SelectSeq(t, LAMBDA r : ~r.isleaf))
        leaves_done == assign_leaf_x(t, [k \in DOMAIN sortind |-> all_child[sortind[k]]], 0)
    IN  assign_parent_x(leaves_done, parents)

\* The trees update_layout is called on: a valid tree with a float x in every
\* row, the x of the leaves in any order and with ties.  update_layout reads
\* no y, so one height for the internal nodes stands for all.
WithX(t, xs) == [i \in DOMAIN t |-> [t[i] EXCEPT !.x = Frac(xs[i], 1)]]

LeafXChoices(t) ==
    {xs \in [DOMAIN t -> 0..MaxX] : \A i \in DOMAIN t : ~t[i].isleaf => xs[i] = 0}

LayoutTrees(max) ==
    UNION {{WithX(t, xs) : xs \in LeafXChoices(t)} :
               t \in {v \in ValidTrees(max) : \A i \in DOMAIN v : v[i].y \in {0, MaxY}}}

-----------------------------------------------------------------------------
(* The calls *)

NoCall == [op |-> "none"]

\* No call but update_layout changes the table held, so what a call returns
\* depends on the table and the arguments alone: a behaviour makes one call on
\* the table, or a chain of calls in which one is handed what the one before
\* returned or left.
Fresh == pc = "idle" /\ call = NoCall

\* A name no row of the table mentions.
AbsentName(t) == CHOOSE n \in Range(NamePool) : n \notin NodeNames(t)

\* get_descendants is entered: the children of node are the first work list
\* and the first output.
DescCall ==
    /\ Fresh
    /\ \E n \in NodeNames(tree), lo \in BOOLEAN :
          /\ node' = n
          /\ leafonly' = lo
          /\ current_node' = ChildrenOf(tree, n)
          /\ descendants' = ChildrenOf(tree, n)
    /\ pc' = "bfs"
    /\ UNCHANGED <<tree, call>>

\* One iteration of the while loop (followed while the output is short of
\* MaxEmit names).
DescLoop ==
    /\ pc = "bfs"
    /\ current_node # <<>>
    /\ Len(descendants) < MaxEmit
    /\ LET s == bfs_step(tree, current_node, descendants)
       IN  /\ current_node' = s.current_node
           /\ descendants' = s.descendants
    /\ UNCHANGED <<tree, call, pc, node, leafonly>>

\* The work list is empty: the call returns.
DescReturn ==
    /\ pc = "bfs"
    /\ current_node = <<>>
    /\ call' = [op       |-> "get_descendants",
                node     |-> node,
                leafonly |-> leafonly,
                ret      |-> IF leafonly THEN leaf_filter(tree, descendants)
                                         ELSE descendants]
    /\ pc' = "idle"
    /\ node' = None
    /\ leafonly' = FALSE
    /\ current_node' = <<>>
    /\ descendants' = <<>>
    /\ UNCHANGED tree

GetAncestors ==
    /\ Fresh
    /\ \E n \in NodeNames(tree), rootnode \in NodeNames(tree) \cup {None} :
          call' = [op       |-> "get_ancestors",
                   node     |-> n,
                   rootnode |-> rootnode,
                   ret      |-> get_ancestors(tree, n, rootnode)]
    /\ UNCHANGED <<tree, pc, node, leafonly, current_node, descendants>>

GetSubtree ==
    /\ Fresh
    /\ \E n \in NodeNames(tree) \cup {AbsentName(tree)} :
          call' = [op |-> "get_subtree", node |-> n, ret |-> get_subtree(tree, n)]
    /\ UNCHANGED <<tree, pc, node, leafonly, current_node, descendants>>

\* simplify_tree(pruned_subtree) with the default skip_nodes, on the tree the
\* program holds or on the tree the previous simplify_tree returned.  The
\* argument is deep-copied, so the tree held is left alone.
SimplifyTree ==
    /\ pc = "idle"
    /\ call.op \in {"none", "simplify_tree"}
    /\ LET again          == call.op = "simplify_tree"
           pruned_subtree == IF again THEN call.simple_tree ELSE tree
       IN  \E skip_nodes \in orders_of(default_skip_nodes(pruned_subtree)) :
              call' = [op             |-> "simplify_tree",
                       pruned_subtree |-> pruned_subtree,
                       again          |-> again,
                       skip_nodes     |-> skip_nodes,
                       simple_tree    |-> simplify_tree(pruned_subtree, skip_nodes)]
    /\ UNCHANGED <<tree, pc, node, leafonly, current_node, descendants>>

CopheneticDistance ==
    /\ Fresh
    /\ call' = [op  |-> "calculate_cophenetic_distance",
                ret |-> calculate_cophenetic_distance(tree)]
    /\ UNCHANGED <<tree, pc, node, leafonly, current_node, descendants>>

GetMergeseq ==
    /\ Fresh
    /\ \E ordered_merge_parents \in argsort_orders(tree, merge_candidates(tree)) :
          call' = [op  |-> "get_mergeseq",
                   ret |-> get_mergeseq(tree, ordered_merge_parents)]
    /\ UNCHANGED <<tree, pc, node, leafonly, current_node, descendants>>

\* The label arrays handed to do_merges: the leaf labels of the tree, or any
\* short array of names of the tree.
LabelArrays(t) ==
    {LeafList(t)} \cup UNION {[1..n -> NodeNames(t)] : n \in 1..MaxLabels}

\* do_merges(labels, list_changes, n_merges) with the list get_mergeseq has
\* just returned.
DoMerges ==
    /\ pc = "idle"
    /\ call.op = "get_mergeseq"
    /\ \E labels \in LabelArrays(tree), n_merges \in 0..(Len(call.ret) + 1) :
          call' = [op           |-> "do_merges",
                   labels       |-> labels,
                   list_changes |-> call.ret,
                   n_merges     |-> n_merges,
                   ret          |-> do_merges(labels, call.ret, n_merges)]
    /\ UNCHANGED <<tree, pc, node, leafonly, current_node, descendants>>

-----------------------------------------------------------------------------
(* Specifications *)

Idle ==
    /\ call = NoCall
    /\ pc = "idle"
    /\ node = None
    /\ leafonly = FALSE
    /\ current_node = <<>>
    /\ descendants = <<>>

\* Traversal, subtree, simplification and distances on the valid trees.
Init == tree \in ValidTrees(MaxNodes) /\ Idle

Next ==
    \/ DescCall
    \/ DescLoop
    \/ DescReturn
    \/ GetAncestors
    \/ GetSubtree
    \/ SimplifyTree
    \/ CopheneticDistance

Spec == Init /\ [][Next]_vars

\* The merge sequence and its application to label arrays.
InitMerge == tree \in ValidTrees(MaxMergeNodes) /\ Idle

NextMerge == GetMergeseq \/ DoMerges

SpecMerge == InitMerge /\ [][NextMerge]_vars

\* The worked example.
InitScenario == tree = ScenarioTree /\ Idle

NextScenario == CopheneticDistance \/ GetMergeseq \/ DoMerges

SpecScenario == InitScenario /\ [][NextScenario]_vars

\* get_descendants on edge lists that are no trees.
InitMalformed == tree \in MalformedTrees(MaxRowsM) /\ Idle

NextMalformed == DescCall \/ DescLoop \/ DescReturn

SpecMalformed == InitMalformed /\ [][NextMalformed]_vars

\* calculate_wasserstein_distance(P, Q, D).  (The feasible points depend on P
\* and Q alone and are found once for all D.)
Wasserstein ==
    /\ Fresh
    /\ \E n \in 1..MaxN :
          \E P \in Distributions(n), Q \in Distributions(n) :
             \E feasible \in {feasible_points(build_A_eq(n), build_b_eq(n, P, Q))} :
                 \E D \in CostMatrices(n) :
                    \E result \in linprog(flatten(n, D), feasible) :
                       call' = [op      |-> "calculate_wasserstein_distance",
                                P       |-> P,
                                Q       |-> Q,
                                D       |-> D,
                                success |-> result.success,
                                ret     |-> wasserstein_return(n, result)]
    /\ UNCHANGED <<tree, pc, node, leafonly, current_node, descendants>>

InitWasserstein == tree = ScenarioTree /\ Idle

NextWasserstein == Wasserstein

SpecWasserstein == InitWasserstein /\ [][NextWasserstein]_vars

\* update_layout(): the x column is rewritten in place, on the table as
\* constructed or as an earlier update_layout left it.
UpdateLayout ==
    /\ pc = "idle"
    /\ call.op \in {"none", "update_layout"}
    /\ \E sortind \in argsort(LeafX(tree), DOMAIN LeafX(tree)) :
          /\ tree' = update_layout(tree, sortind)
          /\ call' = [op      |-> "update_layout",
                      before  |-> tree,
                      sortind |-> sortind]
    /\ UNCHANGED <<pc, node, leafonly, current_node, descendants>>

InitLayout == tree \in LayoutTrees(MaxLayoutNodes) /\ Idle

NextLayout == UpdateLayout

SpecLayout == InitLayout /\ [][NextLayout]_vars

-----------------------------------------------------------------------------
(* What the claims speak of, stated on the table itself *)

HasRow(t, n) == \E i \in DOMAIN t : t[i].child = n

RowOf(t, n) == t[CHOOSE i \in DOMAIN t : t[i].child = n]

\* S and the parents of the members of S.
Up(t, S) == S \cup {t[i].parent : i \in {k \in DOMAIN t : t[k].child \in S}}

RECURSIVE UpClosure(_, _)
UpClosure(t, S) == IF Up(t, S) = S THEN S ELSE UpClosure(t, Up(t, S))

\* n and everything above it.
ChainSet(t, n) == UpClosure(t, {n})

ProperAncestors(t, n) == ChainSet(t, n) \ {n}

DescendantSet(t, n) == {m \in NodeNames(t) : n \in ProperAncestors(t, m)}

LeafNames(t) == {t[i].child : i \in {k \in DOMAIN t : t[k].isleaf}}

\* The deepest node on both chains: the common node every common node is on
\* the chain of.
LCA(t, i, j) ==
    LET common == ChainSet(t, i) \cap ChainSet(t, j)
    IN  CHOOSE c \in common : common \subseteq ChainSet(t, c)

EdgeSet(t) == {<<t[i].child, t[i].parent>> : i \in DOMAIN t}

\* Every node with a row is lower than / no higher than its parent, where the
\* parent has a row.
HeightsIncrease(t) ==
    \A i \in DOMAIN t : HasRow(t, t[i].parent) => t[i].y < RowOf(t, t[i].parent).y

InternalHeightsIncrease(t) ==
    \A i \in DOMAIN t :
        ~t[i].isleaf /\ HasRow(t, t[i].parent) => t[i].y < RowOf(t, t[i].parent).y

HeightsNonDecreasing(t) ==
    \A i \in DOMAIN t : HasRow(t, t[i].parent) => t[i].y <= RowOf(t, t[i].parent).y

-----------------------------------------------------------------------------
(* Claims *)

\* C1 (as stated): calculate_cophenetic_distance returns a matrix with an
\* entry for every pair of leaves, and the entry is the height y of the lowest
\* common ancestor of the pair, also when that ancestor is the root.
C1_DistanceIsLcaHeight ==
    call.op = "calculate_cophenetic_distance" =>
        /\ call.ret.status = "ok"
        /\ \A i, j \in LeafNames(tree) :
              /\ HasRow(tree, LCA(tree, i, j))
              /\ call.ret.df_distance[<<j, i>>] = RowOf(tree, LCA(tree, i, j)).y

\* Where the lowest common ancestor of every pair has a row, the entries are
\* its height (the part of C1 the code keeps).
C1_DistanceWhereLcaHasRow ==
    call.op = "calculate_cophenetic_distance" =>
        IF \A i, j \in LeafNames(tree) : HasRow(tree, LCA(tree, i, j))
        THEN /\ call.ret.status = "ok"
             /\ \A i, j \in LeafNames(tree) :
                   call.ret.df_distance[<<j, i>>] = RowOf(tree, LCA(tree, i, j)).y
        ELSE call.ret.status = "IndexError"

\* C1: a reachable state in which the lowest common ancestor of two leaves is
\* the root sentinel, which has no row, and the call has ended.
C1_Witness ==
    /\ call.op = "calculate_cophenetic_distance"
    /\ \E i, j \in LeafNames(tree) : ~HasRow(tree, LCA(tree, i, j))

ChildSet(record) == Range(record.children)

ScenarioDistances ==
    call.op = "calculate_cophenetic_distance" =>
        /\ call.ret.status = "ok"
        /\ call.ret.df_distance[<<"a1", "a2">>] = 1
        /\ call.ret.df_distance[<<"a2", "a1">>] = 1
        /\ call.ret.df_distance[<<"a1", "B">>] = 2
        /\ call.ret.df_distance[<<"B", "a1">>] = 2

ScenarioFirstMerge ==
    call.op = "do_merges" /\ call.labels = <<"a1", "a2", "B">> /\ call.n_merges = 1 =>
        call.ret.labels = <<"A", "A", "B">>

\* C2 (as stated): on the tree of the worked example the distances a1-a2 and
\* a1-B are 1 and 2, get_mergeseq returns the single record ({a1, a2}, A), and
\* applying that merge to the labels [a1, a2, B] gives [A, A, B].
C2_ScenarioOneRecord ==
    /\ ScenarioDistances
    /\ call.op = "get_mergeseq" =>
          /\ Len(call.ret) = 1
          /\ ChildSet(call.ret[1]) = {"a1", "a2"}
          /\ call.ret[1].parent = "A"
    /\ ScenarioFirstMerge

\* C2 (amended): on the tree of the worked example the distances a1-a2 and
\* a1-B are 1 and 2, get_mergeseq returns two records, ({a1, a2}, A) and then
\* ({A, B}, R), and applying the first of them to the labels [a1, a2, B] gives
\* [A, A, B].
C2_ScenarioTwoRecords ==
    /\ ScenarioDistances
    /\ call.op = "get_mergeseq" =>
          /\ Len(call.ret) = 2
          /\ ChildSet(call.ret[1]) = {"a1", "a2"}
          /\ call.ret[1].parent = "A"
          /\ ChildSet(call.ret[2]) = {"A", "B"}
          /\ call.ret[2].parent = "R"
    /\ ScenarioFirstMerge

C2_Witness ==
    /\ tree = ScenarioTree
    /\ call.op = "do_merges"
    /\ call.labels = <<"a1", "a2", "B">>
    /\ call.n_merges = 1
    /\ Len(call.list_changes) = 2

\* The parent labels that are no leaves, and the height the claim orders them
\* by: below every label without a row come the labels with one, by their y.
MergeCandidates(t) == {t[i].parent : i \in DOMAIN t} \ LeafNames(t)

MergesNoLater(t, a, b) ==
    \/ ~HasRow(t, b)
    \/ HasRow(t, a) /\ RowOf(t, a).y <= RowOf(t, b).y

\* C3: get_mergeseq returns k-1 records for k merge candidates, the parents in
\* non-decreasing order of merge height, each record with all the children of
\* its parent; the candidate left over is the root (it has no row), and no
\* record has it as parent.
C3_MergeSequence ==
    call.op = "get_mergeseq" =>
        LET seq     == call.ret
            parents == {seq[i].parent : i \in DOMAIN seq}
        IN  /\ Len(seq) = Cardinality(MergeCandidates(tree)) - 1
            /\ \A i, j \in DOMAIN seq : i < j =>
                  /\ seq[i].parent # seq[j].parent
                  /\ MergesNoLater(tree, seq[i].parent, seq[j].parent)
            /\ \A i \in DOMAIN seq :
                  /\ seq[i].parent \in MergeCandidates(tree)
                  /\ ChildSet(seq[i]) =
                        {tree[k].child : k \in {m \in DOMAIN tree : tree[m].parent = seq[i].parent}}
            /\ \E g \in MergeCandidates(tree) :
                  /\ MergeCandidates(tree) \ parents = {g}
                  /\ ~HasRow(tree, g)

C3_Witness ==
    /\ call.op = "get_mergeseq"
    /\ Len(call.ret) = 2
    /\ RowOf(tree, call.ret[1].parent).y = RowOf(tree, call.ret[2].parent).y

AllChildren(seq) == UNION {ChildSet(seq[i]) : i \in DOMAIN seq}

FullyCollapsed ==
    call.op = "do_merges" /\ call.n_merges = Len(call.list_changes) =>
        \A i \in DOMAIN call.ret.labels :
            call.ret.labels[i] \notin AllChildren(call.list_changes)

\* C4 (as stated): after do_merges(labels, seq, len(seq)) no label is a child
\* of a record of seq, whatever the heights of parents and children.
C4_FullyCollapsed == FullyCollapsed

\* C4 (amended): on a tree in which every internal node is strictly lower than
\* its parent (where the parent has a row), after do_merges(labels, seq,
\* len(seq)) no label is a child of a record of seq.
C4_CollapsedWhenHeightsIncrease == InternalHeightsIncrease(tree) => FullyCollapsed

C4_Witness ==
    /\ InternalHeightsIncrease(tree)
    /\ call.op = "do_merges"
    /\ call.n_merges = Len(call.list_changes)
    /\ Len(call.list_changes) = 2
    /\ \E i \in DOMAIN call.labels : call.labels[i] \in LeafNames(tree)
    /\ \A i \in DOMAIN call.labels : call.labels[i] # call.ret.labels[i]

\* C5: simplify_tree with the default skip_nodes keeps the set of leaf names,
\* and run on its own result it removes no node and returns the same edges.
C5_SimplifyIdempotent ==
    call.op = "simplify_tree" =>
        /\ LeafNames(call.simple_tree) = LeafNames(call.pruned_subtree)
        /\ {n \in NodeNames(call.simple_tree) : ChildrenOf(call.simple_tree, n) = <<>>}
              = {n \in NodeNames(call.pruned_subtree) : ChildrenOf(call.pruned_subtree, n) = <<>>}
        /\ call.again =>
              /\ EdgeSet(call.simple_tree) = EdgeSet(call.pruned_subtree)
              /\ Len(call.simple_tree) = Len(call.pruned_subtree)

\* The second of two runs, the first of which took a chain of two single-child
\* nodes out of the tree held.
C5_Witness ==
    /\ call.op = "simplify_tree"
    /\ call.again
    /\ Len(call.pruned_subtree) + 2 <= Len(tree)
    /\ Len(call.skip_nodes) >= 1

Ultrametric ==
    call.op = "calculate_cophenetic_distance" /\ call.ret.status = "ok" =>
        LET d == call.ret.df_distance
        IN  \A a, b, c \in LeafNames(tree) :
                LET ab == d[<<a, b>>]
                    ac == d[<<a, c>>]
                    bc == d[<<b, c>>]
                IN  \/ ab = ac /\ bc <= ab
                    \/ ab = bc /\ ac <= ab
                    \/ ac = bc /\ ab <= ac

\* C6 (as stated): the matrix of calculate_cophenetic_distance is ultrametric
\* on every tree: of the three distances among any three leaves the two
\* largest are equal.
C6_Ultrametric == Ultrametric

\* C6 (amended): on a tree in which no node is higher than its parent (where
\* the parent has a row), the matrix is ultrametric.
C6_UltrametricWhenHeightsOrdered == HeightsNonDecreasing(tree) => Ultrametric

C6_Witness ==
    /\ HeightsNonDecreasing(tree)
    /\ call.op = "calculate_cophenetic_distance"
    /\ call.ret.status = "ok"
    /\ \E a, b, c \in LeafNames(tree) :
          /\ call.ret.df_distance[<<a, b>>] > 0
          /\ call.ret.df_distance[<<a, b>>] < call.ret.df_distance[<<a, c>>]

\* The ancestors of n strictly below r, from n's parent upwards.
IsUpwardWalk(t, n, list) ==
    /\ list # <<>> => list[1] = t[CHOOSE i \in DOMAIN t : t[i].child = n].parent
    /\ \A i \in 1..(Len(list) - 1) : list[i + 1] = RowOf(t, list[i]).parent

StrictlyBetween(t, n, r) == {m \in ProperAncestors(t, n) : r \in ProperAncestors(t, m)}

\* C7 (as stated): with rootnode a proper ancestor of node, get_ancestors
\* returns the ancestors strictly below rootnode in upward order, without
\* rootnode itself.
C7_AncestorsExclusive ==
    call.op = "get_ancestors" /\ call.rootnode \in ProperAncestors(tree, call.node) =>
        /\ call.ret.status = "ok"
        /\ IsUpwardWalk(tree, call.node, call.ret.list)
        /\ Range(call.ret.list) = StrictlyBetween(tree, call.node, call.rootnode)

\* C7 (amended): with rootnode a proper ancestor of node, get_ancestors
\* returns the ancestors of node in upward order up to and including rootnode:
\* every ancestor strictly below rootnode, then rootnode as the last entry,
\* and nothing above it.
C7_AncestorsInclusive ==
    call.op = "get_ancestors" /\ call.rootnode \in ProperAncestors(tree, call.node) =>
        /\ call.ret.status = "ok"
        /\ IsUpwardWalk(tree, call.node, call.ret.list)
        /\ NoDuplicates(call.ret.list)
        /\ call.ret.list # <<>>
        /\ call.ret.list[Len(call.ret.list)] = call.rootnode
        /\ Range(call.ret.list) =
              StrictlyBetween(tree, call.node, call.rootnode) \cup {call.rootnode}

C7_Witness ==
    /\ call.op = "get_ancestors"
    /\ call.rootnode \in ProperAncestors(tree, call.node)
    /\ Len(call.ret.list) >= 2
    /\ HasRow(tree, call.rootnode)

\* n and everything below it.
Down(t, S) == S \cup {t[i].child : i \in {k \in DOMAIN t : t[k].parent \in S}}

RECURSIVE DownClosure(_, _)
DownClosure(t, S) == IF Down(t, S) = S THEN S ELSE DownClosure(t, Down(t, S))

\* The edges reachable from n contain a cycle.
CycleBelow(t, n) ==
    \E m \in DownClosure(t, {n}) : m \in DownClosure(t, Range(ChildrenOf(t, m)))

OneRowPerChild(t) == NoDuplicates(childCol(t))

\* C8 (as stated, the part a finite run decides): where the edges reachable
\* from node contain a cycle, get_descendants does not go round it: it emits
\* no name it has emitted before (and ends in an error instead).
C8_NoNameEmittedTwice ==
    pc = "bfs" /\ OneRowPerChild(tree) /\ CycleBelow(tree, node) =>
        NoDuplicates(descendants)

\* On a table without a reachable cycle and with one row per child the call
\* returns every name below node once (the part of C8 the code keeps).
C8_AcyclicEmitsOnce ==
    call.op = "get_descendants" /\ ~call.leafonly /\ OneRowPerChild(tree) =>
        /\ NoDuplicates(call.ret)
        /\ Range(call.ret) = DownClosure(tree, Range(ChildrenOf(tree, call.node)))
        /\ call.node \notin Range(call.ret)

\* C9 (as stated): for every node that has a row, leaf or not, get_subtree
\* returns the rows whose child is the node or one of its descendants; it
\* fails only for a node no row matches.
C9_SubtreeOfEveryNodeWithRow ==
    call.op = "get_subtree" =>
        /\ HasRow(tree, call.node) =>
              /\ call.ret.status = "ok"
              /\ Range(call.ret.tree) =
                    {tree[i] : i \in {k \in DOMAIN tree :
                        tree[k].child \in DescendantSet(tree, call.node) \cup {call.node}}}
        /\ call.ret.status # "ok" =>
              ~\E i \in DOMAIN tree :
                  tree[i].child \in DescendantSet(tree, call.node) \cup {call.node}

\* C10: when the solver succeeds the plan returned is not negative, its rows
\* sum to P and its columns to Q, and the cost returned is the sum of
\* D[i][j] * T[i][j]; when the solver reports failure no plan is returned.
C10_TransportPlan ==
    call.op = "calculate_wasserstein_distance" =>
        LET n == Len(call.P)
            T == call.ret.transport_plan
        IN  IF call.success
            THEN /\ \A i, j \in 1..n : T[i][j] >= 0
                 /\ \A i \in 1..n : SumSeq([j \in 1..n |-> T[i][j]]) = call.P[i]
                 /\ \A j \in 1..n : SumSeq([i \in 1..n |-> T[i][j]]) = call.Q[j]
                 /\ call.ret.distance =
                       SumSeq([i \in 1..n |->
                                 SumSeq([j \in 1..n |-> call.D[i][j] * T[i][j]])])
            ELSE call.ret.transport_plan = None /\ call.ret.distance = None

C10_Witness ==
    /\ call.op = "calculate_wasserstein_distance"
    /\ call.success
    /\ Len(call.P) >= 2
    /\ call.P # call.Q
    /\ call.D[1][2] # call.D[2][1]
    /\ call.ret.distance > 0

\* The sum of the (integer) x of the rows given.
RECURSIVE SumOfX(_, _)
SumOfX(t, rows) ==
    IF rows = {} THEN 0
    ELSE LET i == CHOOSE k \in rows : TRUE
         IN  t[i].x.num + SumOfX(t, rows \ {i})

LeafRows(t) == {i \in DOMAIN t : t[i].isleaf}

LeafRowsBelow(t, n) == {i \in LeafRows(t) : t[i].child \in DescendantSet(t, n)}

\* C11: after update_layout on a tree with L leaves the x of the leaves are
\* exactly 0 .. L-1, in ascending order of their x before the call; the x of
\* every internal node is the mean of the new x of the leaves below it; and
\* child, parent, isleaf and y of every row are as they were.
C11_UpdateLayout ==
    call.op = "update_layout" =>
        LET before == call.before
            L      == Cardinality(LeafRows(before))
        IN  /\ DOMAIN tree = DOMAIN before
            /\ \A i \in DOMAIN tree :
                  /\ tree[i].child = before[i].child
                  /\ tree[i].parent = before[i].parent
                  /\ tree[i].isleaf = before[i].isleaf
                  /\ tree[i].y = before[i].y
            /\ \A i \in LeafRows(tree) : tree[i].x.den = 1
            /\ {tree[i].x.num : i \in LeafRows(tree)} = 0..(L - 1)
            /\ \A i, j \in LeafRows(tree) :
                  /\ i # j => tree[i].x # tree[j].x
                  /\ FracLess(before[i].x, before[j].x) => FracLess(tree[i].x, tree[j].x)
            /\ \A i \in DOMAIN tree \ LeafRows(tree) :
                  LET below == LeafRowsBelow(tree, tree[i].child)
                  IN  /\ below # {}
                      /\ tree[i].x.den > 0
                      /\ tree[i].x.num * Cardinality(below) =
                            tree[i].x.den * SumOfX(tree, below)

\* update_layout has moved leaves that were out of row order and leaves of
\* equal x, and has given one internal node a mean that is no integer and one
\* the mean of leaves that lie at different depths below it.
C11_Witness ==
    /\ call.op = "update_layout"
    /\ tree # call.before
    /\ \E i, j \in LeafRows(tree) :
          /\ i < j
          /\ FracLess(call.before[j].x, call.before[i].x)
          /\ FracLess(tree[j].x, tree[i].x)
    /\ \E i, j \in LeafRows(tree) : i # j /\ call.before[i].x = call.before[j].x
    /\ \E i \in DOMAIN tree \ LeafRows(tree) : tree[i].x.den = 2
    /\ \E i \in DOMAIN tree \ LeafRows(tree) :
          /\ Cardinality(LeafRowsBelow(tree, tree[i].child)) >= 3
          /\ \E k \in DOMAIN tree \ LeafRows(tree) : tree[k].parent = tree[i].child

====
